---- MODULE Spec2Model ----
(***************************************************************************)
(* MindCare AI (app.py): the Streamlit script that sends the user's text   *)
(* and/or image to a hosted model, parses a risk score and a sentiment     *)
(* mapping out of the reply with two regular expressions, and renders a    *)
(* risk banner, a pie chart and a PDF download.                            *)
(*                                                                         *)
(* A text is a sequence of lexemes.  A lexeme is one character ("7", "%",  *)
(* "\n", "x" for any character that is neither a digit, a percent sign nor *)
(* a line break) or one spelling of a keyword the regular expressions look *)
(* for ("Risk", "risk", "Positive", "positive", ...).  The regular         *)
(* expressions are evaluated as Python's re module evaluates them: start   *)
(* positions from left to right, lazy quantifiers shortest first, greedy   *)
(* quantifiers longest first, "." matching everything but "\n".            *)
(***************************************************************************)
EXTENDS Integers, Sequences, FiniteSets, TLC

VARIABLES
    api_key,        \* os.getenv("GOOGLE_API_KEY") is not None        (line 13)
    user_input,     \* st.text_area value                              (line 138)
    uploaded_file,  \* st.file_uploader returned a file                (line 140)
    button,         \* st.button("Analyze Mental Health") return value (line 144)
    pc,             \* position of the script run
    outcome,        \* what the model call of this script run did
    calls,          \* generate_content calls made in this script run
    response,       \* response                                        (line 152)
    risk_score,     \* risk_score                                      (line 159)
    sentiments,     \* sentiments                                      (line 163)
    ui              \* the elements the script run has put on the page

vars == <<api_key, user_input, uploaded_file, button, pc, outcome, calls,
          response, risk_score, sentiments, ui>>

(***************************************************************************)
(* Bounds of the model.                                                    *)
(***************************************************************************)
MaxReplyLen == 5
MaxRiskLen == 5
MaxSentLen == 6

(***************************************************************************)
(* Lexemes.                                                                *)
(***************************************************************************)
Digits == {"0", "1", "2", "3", "4", "5", "6", "7", "8", "9"}

IsDigit(c) == c \in Digits

DigitVal(c) ==
    CASE c = "0" -> 0 [] c = "1" -> 1 [] c = "2" -> 2 [] c = "3" -> 3
      [] c = "4" -> 4 [] c = "5" -> 5 [] c = "6" -> 6 [] c = "7" -> 7
      [] c = "8" -> 8 [] c = "9" -> 9

\* Case folding of a lexeme, as re.IGNORECASE compares it.
Lower(c) ==
    CASE c \in {"Risk", "risk", "RISK"} -> "risk"
      [] c \in {"Positive", "positive", "POSITIVE"} -> "positive"
      [] c \in {"Neutral", "neutral", "NEUTRAL"} -> "neutral"
      [] c \in {"Negative", "negative", "NEGATIVE"} -> "negative"
      [] OTHER -> c

\* "." of a pattern compiled without re.DOTALL.
Dot(c) == c # "\n"

Texts(alphabet, n) == UNION {[1..k -> alphabet] : k \in 0..n}

(***************************************************************************)
(* int(): the value of a run of decimal digits.                            *)
(***************************************************************************)
RECURSIVE int(_)
int(s) ==
    IF s = <<>> THEN 0
    ELSE 10 * int(SubSeq(s, 1, Len(s) - 1)) + DigitVal(s[Len(s)])

min(a, b) == IF a <= b THEN a ELSE b
max(a, b) == IF a >= b THEN a ELSE b

\* Greedy \d{1,n} from position i: the longest run of at most n digits.
RECURSIVE GreedyDigits(_, _, _)
GreedyDigits(text, i, n) ==
    IF n = 0 \/ i > Len(text) \/ ~IsDigit(text[i]) THEN <<>>
    ELSE <<text[i]>> \o GreedyDigits(text, i + 1, n - 1)

(***************************************************************************)
(* parse_risk_score: re.search(r"Risk.*?(\d{1,3})", text, re.IGNORECASE)   *)
(***************************************************************************)
\* ".*?" followed by the first digit of the group, tried from position i:
\* the position of that digit, 0 when the pattern cannot match from here.
RECURSIVE RiskLazy(_, _)
RiskLazy(text, i) ==
    IF i > Len(text) THEN 0
    ELSE IF IsDigit(text[i]) THEN i
    ELSE IF Dot(text[i]) THEN RiskLazy(text, i + 1)
    ELSE 0

\* re.search: the first start position p at which the pattern matches;
\* the value is group(1), <<>> for None.
RECURSIVE RiskSearch(_, _)
RiskSearch(text, p) ==
    IF p > Len(text) THEN <<>>
    ELSE IF Lower(text[p]) = "risk" /\ RiskLazy(text, p + 1) # 0
         THEN GreedyDigits(text, RiskLazy(text, p + 1), 3)
    ELSE RiskSearch(text, p + 1)

\* parse_risk_score without the clamp of line 106.
parse_risk_score_unclamped(text) ==
    LET match == RiskSearch(text, 1)
    IN  IF match # <<>> THEN int(match) ELSE 0

parse_risk_score(text) ==
    LET match == RiskSearch(text, 1)
    IN  IF match # <<>>
        THEN LET val == int(match) IN max(0, min(val, 100))
        ELSE 0

(***************************************************************************)
(* parse_sentiments:                                                       *)
(*   re.findall(r"(Positive|Neutral|Negative).*?(\d+)%", text, IGNORECASE) *)
(*   {label: int(score) for label, score in matches}                       *)
(***************************************************************************)
IsLabel(c) == Lower(c) \in {"positive", "neutral", "negative"}

\* "(\d+)%" tried at position i: greedy \d+ takes the whole run of digits
\* from i and "%" must come next.  Giving digits back cannot help: the
\* character after a shorter run is a digit, never "%".
DigitsPercent(text, i) ==
    LET run == GreedyDigits(text, i, Len(text))
    IN  /\ run # <<>>
        /\ i + Len(run) <= Len(text)
        /\ text[i + Len(run)] = "%"

\* ".*?" followed by "(\d+)%", tried from position i: the position where
\* the group starts, 0 when the pattern cannot match from here.
RECURSIVE SentLazy(_, _)
SentLazy(text, i) ==
    IF i > Len(text) THEN 0
    ELSE IF DigitsPercent(text, i) THEN i
    ELSE IF Dot(text[i]) THEN SentLazy(text, i + 1)
    ELSE 0

\* re.findall: the non-overlapping matches from left to right, each as
\* <<group(1), group(2)>>; the scan resumes after the "%" of a match.
RECURSIVE SentFindall(_, _)
SentFindall(text, p) ==
    IF p > Len(text) THEN <<>>
    ELSE IF IsLabel(text[p]) /\ SentLazy(text, p + 1) # 0
         THEN LET q == SentLazy(text, p + 1)
                  score == GreedyDigits(text, q, Len(text))
              IN  <<<<text[p], score>>>> \o SentFindall(text, q + Len(score) + 1)
    ELSE SentFindall(text, p + 1)

EmptyDict == [k \in {} |-> 0]

\* A dict that keeps the first value stored under a key.
DictSet_keep_first(d, label, value) ==
    [k \in DOMAIN d \cup {label} |-> IF k \in DOMAIN d THEN d[k] ELSE value]

\* d[label] = value of a dict: a later assignment overwrites an earlier one.
DictSet(d, label, value) ==
    [k \in DOMAIN d \cup {label} |-> IF k = label THEN value ELSE d[k]]

\* The dict comprehension: the pairs are stored in the order of the matches.
RECURSIVE DictComp(_, _)
DictComp(matches, d) ==
    IF matches = <<>> THEN d
    ELSE DictComp(Tail(matches),
                  DictSet(d, Head(matches)[1], int(Head(matches)[2])))

\* parse_sentiments with the clamp of parse_risk_score applied to each value.
parse_sentiments_clamped(text) ==
    LET d == DictComp(SentFindall(text, 1), EmptyDict)
    IN  [k \in DOMAIN d |-> max(0, min(d[k], 100))]

parse_sentiments(text) ==
    LET matches == SentFindall(text, 1)
    IN  DictComp(matches, EmptyDict)

(***************************************************************************)
(* Page elements.  st.markdown, st.subheader, st.write, st.warning,        *)
(* st.error, st.pyplot and st.download_button each put one element on the  *)
(* page; an element stays until the next script run.                       *)
(***************************************************************************)
El(kind, label, score) == [kind |-> kind, label |-> label, score |-> score]

Banner(label, score) == El("markdown", label, score)
CrisisLink == El("markdown", "Crisis Support Resources", 0)
Subheader(label) == El("subheader", label, 0)
Report == El("write", "response", 0)
Warning == El("warning", "Please provide text input or upload an image", 0)
Error == El("error", "An error occurred during analysis", 0)
Chart == El("pyplot", "pie", 0)
Download == El("download_button", "mental_health_report.pdf", 0)

\* display_risk_level with "score > 67" for "score >= 67".
display_risk_level_gt(score) ==
    IF score > 67
    THEN <<Banner("High Risk", score), CrisisLink>>
    ELSE IF 34 <= score /\ score <= 66
    THEN <<Banner("Moderate Risk", score)>>
    ELSE <<Banner("Low Risk", score)>>

\* display_risk_level with "34 < score" for "34 <= score".
display_risk_level_lt(score) ==
    IF score >= 67
    THEN <<Banner("High Risk", score), CrisisLink>>
    ELSE IF 34 < score /\ score <= 66
    THEN <<Banner("Moderate Risk", score)>>
    ELSE <<Banner("Low Risk", score)>>

\* display_risk_level: the elements it puts on the page.
display_risk_level(score) ==
    IF score >= 67
    THEN <<Banner("High Risk", score), CrisisLink>>
    ELSE IF 34 <= score /\ score <= 66
    THEN <<Banner("Moderate Risk", score)>>
    ELSE <<Banner("Low Risk", score)>>

(***************************************************************************)
(* The script run.  Streamlit runs the script from the top on every        *)
(* interaction; a run starts with an empty page.                           *)
(***************************************************************************)
Image == El("image", "Uploaded Image", 0)

\* The test of line 145 without .strip().
strip_missing(s) == s

\* str.strip() of the text area's value: "" (empty), " " (white space only)
\* and "text" (anything else) stand for the three kinds of value.
strip(s) == IF s = " " THEN "" ELSE s

\* The replies the model service may give in a script run.
ReplyAlphabet == {"Risk", "Positive", "6", "7", "%"}

ExampleReplies ==
    { <<"x", "Risk", "x", "7", "2", "x", "1", "0", "0", "x">>,
      <<"Risk", "x", "7", "2", "\n", "Positive", "x", "4", "0", "%">>,
      <<"Risk", "x", "1", "5", "0", "\n", "Negative", "9", "0", "%">>,
      <<"Positive", "x", "4", "0", "%", "x", "Neutral", "2", "0", "%",
        "x", "Negative", "x", "4", "0", "%">>,
      <<"x", "x">> }

Replies == Texts(ReplyAlphabet, MaxReplyLen) \cup ExampleReplies

\* Lines 11-17: load_dotenv(), genai.configure(api_key=os.getenv(...)), page
\* set-up.  configure() is handed whatever getenv returned; nothing tests it.
Startup ==
    /\ pc = "startup"
    /\ pc' = "widgets"
    /\ UNCHANGED <<api_key, user_input, uploaded_file, button, outcome, calls,
                   response, risk_score, sentiments, ui>>

\* Lines 138-144: the widgets return what the user has entered.
Widgets ==
    /\ pc = "widgets"
    /\ \E t \in {"", " ", "text"}, f \in BOOLEAN, b \in BOOLEAN :
         /\ user_input' = t
         /\ uploaded_file' = f
         /\ button' = b
         /\ ui' = IF f THEN Append(ui, Image) ELSE ui
         /\ pc' = IF b THEN "validate" ELSE "done"
    /\ UNCHANGED <<api_key, outcome, calls, response, risk_score, sentiments>>

\* Lines 145-147.
Validate ==
    /\ pc = "validate"
    /\ IF strip(user_input) = "" /\ ~uploaded_file
       THEN /\ ui' = Append(ui, Warning)
            /\ pc' = "done"
       ELSE /\ ui' = ui
            /\ pc' = "call"
    /\ UNCHANGED <<api_key, user_input, uploaded_file, button, outcome, calls,
                   response, risk_score, sentiments>>

\* Lines 150-152 and 86-92: get_gemini_response returns response.text.
ModelReplies ==
    /\ pc = "call"
    /\ \E reply \in Replies : response' = reply
    /\ calls' = calls + 1
    /\ outcome' = "reply"
    /\ pc' = "report"
    /\ UNCHANGED <<api_key, user_input, uploaded_file, button, risk_score,
                   sentiments, ui>>

\* The exception of the model call swallowed: the run goes on to line 154.
ModelFails_goes_on ==
    /\ pc = "call"
    /\ calls' = calls + 1
    /\ outcome' = "failed"
    /\ response' = <<>>
    /\ pc' = "report"
    /\ UNCHANGED <<api_key, user_input, uploaded_file, button, risk_score,
                   sentiments, ui>>

\* Lines 150-152 and 172-173: generate_content (or response.text) raises and
\* the handler reports the exception.
ModelFails ==
    /\ pc = "call"
    /\ calls' = calls + 1
    /\ outcome' = "failed"
    /\ ui' = Append(ui, Error)
    /\ pc' = "done"
    /\ UNCHANGED <<api_key, user_input, uploaded_file, button, response,
                   risk_score, sentiments>>

\* Lines 154-158.
ShowReport ==
    /\ pc = "report"
    /\ ui' = ui \o <<Subheader("AI Mental Health Sentiment Report"), Report,
                     Subheader("Risk Assessment")>>
    /\ pc' = "parse_risk"
    /\ UNCHANGED <<api_key, user_input, uploaded_file, button, outcome, calls,
                   response, risk_score, sentiments>>

\* Line 159.
ParseRisk ==
    /\ pc = "parse_risk"
    /\ risk_score' = parse_risk_score(response)
    /\ pc' = "display_risk"
    /\ UNCHANGED <<api_key, user_input, uploaded_file, button, outcome, calls,
                   response, sentiments, ui>>

\* Line 160.
DisplayRisk ==
    /\ pc = "display_risk"
    /\ ui' = ui \o display_risk_level(risk_score)
    /\ pc' = "parse_sentiments"
    /\ UNCHANGED <<api_key, user_input, uploaded_file, button, outcome, calls,
                   response, risk_score, sentiments>>

\* Lines 163-164.
ParseSentiments ==
    /\ pc = "parse_sentiments"
    /\ sentiments' = parse_sentiments(response)
    /\ pc' = IF DOMAIN sentiments' # {} THEN "chart" ELSE "pdf"
    /\ UNCHANGED <<api_key, user_input, uploaded_file, button, outcome, calls,
                   response, risk_score, ui>>

\* Lines 165-166 and 118-124.
PlotChart ==
    /\ pc = "chart"
    /\ ui' = ui \o <<Subheader("Emotion Sentiment Breakdown"), Chart>>
    /\ pc' = "pdf"
    /\ UNCHANGED <<api_key, user_input, uploaded_file, button, outcome, calls,
                   response, risk_score, sentiments>>

\* Lines 165-166 and 172-173: matplotlib raises inside plot_emotion_pie.
PlotFails ==
    /\ pc = "chart"
    /\ ui' = ui \o <<Subheader("Emotion Sentiment Breakdown"), Error>>
    /\ pc' = "done"
    /\ UNCHANGED <<api_key, user_input, uploaded_file, button, outcome, calls,
                   response, risk_score, sentiments>>

\* Lines 169-170 and 126-135.
ExportPdf ==
    /\ pc = "pdf"
    /\ ui' = Append(ui, Download)
    /\ pc' = "done"
    /\ UNCHANGED <<api_key, user_input, uploaded_file, button, outcome, calls,
                   response, risk_score, sentiments>>

\* Lines 169 and 172-173: FPDF raises inside generate_pdf_report.
ExportFails ==
    /\ pc = "pdf"
    /\ ui' = Append(ui, Error)
    /\ pc' = "done"
    /\ UNCHANGED <<api_key, user_input, uploaded_file, button, outcome, calls,
                   response, risk_score, sentiments>>

\* The next interaction: the script runs again from the top, the page is
\* rebuilt and the run's variables are unbound again.
Rerun ==
    /\ pc = "done"
    /\ pc' = "startup"
    /\ ui' = <<>>
    /\ outcome' = "none"
    /\ calls' = 0
    /\ response' = <<>>
    /\ risk_score' = 0
    /\ sentiments' = EmptyDict
    /\ button' = FALSE
    /\ UNCHANGED <<api_key, user_input, uploaded_file>>

Init ==
    /\ api_key \in BOOLEAN
    /\ user_input = ""
    /\ uploaded_file = FALSE
    /\ button = FALSE
    /\ pc = "startup"
    /\ outcome = "none"
    /\ calls = 0
    /\ response = <<>>
    /\ risk_score = 0
    /\ sentiments = EmptyDict
    /\ ui = <<>>

Next ==
    \/ Startup
    \/ Widgets
    \/ Validate
    \/ ModelReplies
    \/ ModelFails
    \/ ShowReport
    \/ ParseRisk
    \/ DisplayRisk
    \/ ParseSentiments
    \/ PlotChart
    \/ PlotFails
    \/ ExportPdf
    \/ ExportFails
    \/ Rerun

Spec == Init /\ [][Next]_vars

(***************************************************************************)
(* The two parsers and display_risk_level on their own: the script run is  *)
(* started at the line that calls the function, on every text (score) of a *)
(* bounded set, with the page as lines 154-160 leave it.                   *)
(***************************************************************************)
RiskAlphabet == {"Risk", "risk", "x", "\n", "0", "1", "2", "5", "7"}

RiskExamples ==
    { <<"x", "Risk", "x", "7", "2", "x", "1", "0", "0", "x">>,
      <<"x", "x", "x", "x", "x", "x">>,
      <<"Risk", "x", "1", "5", "0", "0", "x">>,
      <<"RISK", "x", "x", "\n", "x", "x", "8", "5", "\n", "risk", "3">> }

RiskTexts == Texts(RiskAlphabet, MaxRiskLen) \cup RiskExamples

SentAlphabet == {"Positive", "positive", "Negative", "\n", "%", "1", "2"}

SentExamples ==
    { <<"Positive", "x", "4", "0", "%", "x", "Neutral", "2", "0", "%",
        "x", "Negative", "x", "4", "0", "%">>,
      <<"x", "x", "x", "x", "x", "x">>,
      <<"Positive", "1", "%", "x", "Positive", "2", "%">>,
      <<"POSITIVE", "x", "3", "%", "Positive", "4", "%", "neutral", "5", "%",
        "Negative", "x", "1", "5", "0", "%">> }

SentTexts == Texts(SentAlphabet, MaxSentLen) \cup SentExamples

ReportShown ==
    <<Subheader("AI Mental Health Sentiment Report"), Report,
      Subheader("Risk Assessment")>>

InitAt(line, text) ==
    /\ api_key = TRUE
    /\ user_input = "text"
    /\ uploaded_file = FALSE
    /\ button = TRUE
    /\ pc = line
    /\ outcome = "reply"
    /\ calls = 1
    /\ response = text
    /\ sentiments = EmptyDict

InitRisk ==
    /\ \E text \in RiskTexts : InitAt("parse_risk", text)
    /\ risk_score = 0
    /\ ui = ReportShown

NextRisk ==
    \/ ParseRisk
    \/ DisplayRisk

SpecRisk == InitRisk /\ [][NextRisk]_vars

InitSent ==
    /\ \E text \in SentTexts : InitAt("parse_sentiments", text)
    /\ risk_score = parse_risk_score(response)
    /\ ui = ReportShown \o display_risk_level(risk_score)

NextSent == ParseSentiments

SpecSent == InitSent /\ [][NextSent]_vars

\* str() of an integer in 0..999, as a text of digits.
DigitChar(d) ==
    CASE d = 0 -> "0" [] d = 1 -> "1" [] d = 2 -> "2" [] d = 3 -> "3"
      [] d = 4 -> "4" [] d = 5 -> "5" [] d = 6 -> "6" [] d = 7 -> "7"
      [] d = 8 -> "8" [] d = 9 -> "9"

str(n) ==
    IF n < 10 THEN <<DigitChar(n)>>
    ELSE IF n < 100 THEN <<DigitChar(n \div 10), DigitChar(n % 10)>>
    ELSE <<DigitChar(n \div 100), DigitChar((n \div 10) % 10), DigitChar(n % 10)>>

\* Every score parse_risk_score can return, each with a reply that gives it.
InitTier ==
    /\ \E s \in 0..100 :
         /\ InitAt("display_risk", <<"Risk", "x">> \o str(s))
         /\ risk_score = s
    /\ ui = ReportShown

NextTier == DisplayRisk

SpecTier == InitTier /\ [][NextTier]_vars

(***************************************************************************)
(* Properties.                                                             *)
(***************************************************************************)
Range(seq) == {seq[i] : i \in DOMAIN seq}

TierLabels == {"High Risk", "Moderate Risk", "Low Risk"}

IsBanner(e) == e.kind = "markdown" /\ e.label \in TierLabels

\* The report text, a risk banner or the crisis link, the chart, the download.
IsArtifact(e) == e.kind \in {"write", "markdown", "pyplot", "download_button"}

\* display_risk_level has run in this script run.
RiskDisplayed ==
    outcome = "reply" /\ pc \in {"parse_sentiments", "chart", "pdf", "done"}

\* C1: once a reply's risk score is in [67,100] and display_risk_level has
\* run, the High Risk banner and the crisis-resources link are on the page
\* and stay there to the end of the script run, whether or not the chart or
\* the PDF export fails afterwards; the link is on the page for no score in
\* [0,66].
C1_HighRiskShowsCrisisLink ==
    /\ (RiskDisplayed /\ risk_score \in 67..100)
         => /\ Banner("High Risk", risk_score) \in Range(ui)
            /\ CrisisLink \in Range(ui)
    /\ CrisisLink \in Range(ui) => (outcome = "reply" /\ risk_score \in 67..100)

\* A script run that reached HIGH and then failed in the chart or the export.
C1_Witness ==
    /\ pc = "done"
    /\ risk_score \in 67..100
    /\ Error \in Range(ui)
    /\ CrisisLink \in Range(ui)
    /\ Banner("High Risk", risk_score) \in Range(ui)

\* C2: for every score in [0,100] display_risk_level shows exactly one
\* banner: Low Risk for [0,33], Moderate Risk for [34,66], High Risk for
\* [67,100].
C2_TiersPartition ==
    pc = "parse_sentiments" =>
        LET shown == SubSeq(ui, Len(ReportShown) + 1, Len(ui))
            banners == {i \in DOMAIN shown : IsBanner(shown[i])}
            tier == IF risk_score \in 0..33 THEN "Low Risk"
                    ELSE IF risk_score \in 34..66 THEN "Moderate Risk"
                    ELSE "High Risk"
        IN  /\ risk_score \in 0..100
            /\ Cardinality(banners) = 1
            /\ \A i \in banners : shown[i] = Banner(tier, risk_score)

\* The boundaries 33/34 and 66/67 have been displayed.
C2_Witness ==
    /\ pc = "parse_sentiments"
    /\ risk_score \in {33, 34, 66, 67}
    /\ \E e \in Range(ui) : IsBanner(e) /\ e.score = risk_score

\* Some "Risk" is followed on its own line by a digit.
HasRiskPattern(text) ==
    \E p \in DOMAIN text, q \in DOMAIN text :
        /\ p < q
        /\ Lower(text[p]) = "risk"
        /\ IsDigit(text[q])
        /\ \A j \in (p + 1)..(q - 1) : text[j] # "\n"

\* C3: parse_risk_score returns an integer in [0,100]: 100 when the captured
\* number is above 100 (raw "150"), 0 when no "Risk...digits" is found.
C3_RiskScoreClamped ==
    pc # "parse_risk" =>
        /\ risk_score \in 0..100
        /\ ~HasRiskPattern(response) => risk_score = 0
        /\ int(RiskSearch(response, 1)) > 100 => risk_score = 100
        /\ response = <<"Risk", "x", "1", "5", "0", "0", "x">> => risk_score = 100

\* A captured number above 100 has been clamped.
C3_Witness ==
    /\ pc # "parse_risk"
    /\ int(RiskSearch(response, 1)) > 100
    /\ risk_score = 100

\* The first occurrence of "Risk" in the whole text, 0 when there is none.
FirstRisk(text) ==
    IF \E p \in DOMAIN text : Lower(text[p]) = "risk"
    THEN CHOOSE p \in DOMAIN text :
            /\ Lower(text[p]) = "risk"
            /\ \A j \in 1..(p - 1) : Lower(text[j]) # "risk"
    ELSE 0

\* The first digit after position p, whatever lies in between; 0 when none.
FirstDigitAfter(text, p) ==
    IF \E q \in DOMAIN text : q > p /\ IsDigit(text[q])
    THEN CHOOSE q \in DOMAIN text :
            /\ q > p
            /\ IsDigit(text[q])
            /\ \A j \in (p + 1)..(q - 1) : ~IsDigit(text[j])
    ELSE 0

\* C4: for a text with "Risk" followed later by a digit, parse_risk_score
\* returns the clamped value of the first run of 1-3 digits after the first
\* "Risk" of the whole text, whatever characters (line breaks included) lie
\* between them.
C4_FirstRiskAnyGap ==
    (/\ pc # "parse_risk"
     /\ FirstRisk(response) # 0
     /\ FirstDigitAfter(response, FirstRisk(response)) # 0)
        => risk_score =
             min(100, int(GreedyDigits(response,
                     FirstDigitAfter(response, FirstRisk(response)), 3)))

\* C5: every key of the mapping parse_sentiments returns is one of the
\* canonical labels Positive, Neutral, Negative, so there are at most three
\* keys.
C5_CanonicalKeys ==
    pc # "parse_sentiments" =>
        /\ DOMAIN sentiments \subseteq {"Positive", "Neutral", "Negative"}
        /\ Cardinality(DOMAIN sentiments) <= 3

\* The index of the last match whose label is spelled k.
LastMatch(matches, k) ==
    CHOOSE i \in DOMAIN matches :
        /\ matches[i][1] = k
        /\ \A j \in DOMAIN matches : matches[j][1] = k => j <= i

\* C6: the mapping holds exactly the labels matched, each with the integer
\* of its last match in scan order; a text without a match gives the empty
\* mapping; "Positive: 40%, Neutral 20%, Negative: 40%" gives
\* {Positive: 40, Neutral: 20, Negative: 40}.
C6_LastOccurrenceWins ==
    pc # "parse_sentiments" =>
        LET matches == SentFindall(response, 1)
        IN  /\ DOMAIN sentiments = {matches[i][1] : i \in DOMAIN matches}
            /\ \A k \in DOMAIN sentiments :
                 sentiments[k] = int(matches[LastMatch(matches, k)][2])
            /\ (\A i \in DOMAIN response : ~IsLabel(response[i]))
                 => DOMAIN sentiments = {}
            /\ response = <<"Positive", "x", "4", "0", "%", "x", "Neutral",
                            "2", "0", "%", "x", "Negative", "x", "4", "0", "%">>
                 => /\ DOMAIN sentiments = {"Positive", "Neutral", "Negative"}
                    /\ sentiments["Positive"] = 40
                    /\ sentiments["Neutral"] = 20
                    /\ sentiments["Negative"] = 40

\* One label was matched twice with different integers and holds the later.
C6_Witness ==
    /\ pc # "parse_sentiments"
    /\ LET matches == SentFindall(response, 1)
       IN  \E i \in DOMAIN matches, j \in DOMAIN matches :
              /\ i < j
              /\ matches[i][1] = matches[j][1]
              /\ int(matches[i][2]) # int(matches[j][2])
              /\ sentiments[matches[i][1]] = int(matches[j][2])

\* C7 as stated: every value of the mapping is in [0,100].
C7_ValuesInPercentRange ==
    pc # "parse_sentiments" =>
        \A k \in DOMAIN sentiments : sentiments[k] \in 0..100

\* text[i..j] is a whole run of digits and "%" comes right after it.
IsPercentRun(text, i, j) ==
    /\ i <= j
    /\ \A n \in i..j : IsDigit(text[n])
    /\ (i = 1 \/ ~IsDigit(text[i - 1]))
    /\ j + 1 <= Len(text)
    /\ text[j + 1] = "%"

\* C7 as amended: every value of the mapping is a non-negative integer, the
\* value of a whole run of digits that stands right before a "%" in the
\* text; it is not limited to 100.
C7_ValuesAreDigitRuns ==
    pc # "parse_sentiments" =>
        \A k \in DOMAIN sentiments :
            /\ sentiments[k] \in Nat
            /\ \E i \in DOMAIN response, j \in DOMAIN response :
                 /\ IsPercentRun(response, i, j)
                 /\ sentiments[k] = int(SubSeq(response, i, j))

\* A value above 100 is in the mapping.
C7_Witness ==
    /\ pc # "parse_sentiments"
    /\ \E k \in DOMAIN sentiments : sentiments[k] > 100

\* C8: when the model call fails, one error message is on the page and no
\* report text, banner, chart or download; these are on the page only
\* after the model call has returned a reply.
C8_NoArtifactsWithoutReply ==
    /\ outcome = "failed" =>
         /\ Cardinality({i \in DOMAIN ui : ui[i] = Error}) = 1
         /\ \A e \in Range(ui) : ~IsArtifact(e)
    /\ (\E e \in Range(ui) : IsArtifact(e)) => outcome = "reply"

\* The model call has failed and the handler has reported it.
C8_Witness ==
    /\ outcome = "failed"
    /\ pc = "done"
    /\ calls = 1
    /\ Error \in Range(ui)

HandlerEntered == button /\ pc \notin {"startup", "widgets", "validate"}

\* C9: Analyze with neither text (empty or white space only) nor image
\* shows the warning, calls the model service not at all and produces no
\* report, banner, chart or download; with at least one of the two, the
\* script run makes exactly one model call.
C9_ValidationGuardsModelCall ==
    /\ calls \in {0, 1}
    /\ (HandlerEntered /\ user_input \in {"", " "} /\ ~uploaded_file)
         => /\ Warning \in Range(ui)
            /\ calls = 0
            /\ \A e \in Range(ui) : ~IsArtifact(e)
    /\ (HandlerEntered /\ pc = "done" /\ ~(user_input \in {"", " "} /\ ~uploaded_file))
         => calls = 1
    /\ calls = 1 => button

\* Analyze was pressed with white space only and no image.
C9_Witness ==
    /\ pc = "done"
    /\ button
    /\ user_input = " "
    /\ ~uploaded_file
    /\ Warning \in Range(ui)
    /\ calls = 0

\* C10: started without the API key, the program reports a configuration
\* error and stops: no model call is ever made.
C10_NoCallWithoutKey ==
    ~api_key => calls = 0

====
